---- MODULE Spec2Model ----
(***************************************************************************)
(* The offset engine of src/src/App.jsx: the animation loop, the scroll,  *)
(* resize, mode and column handlers, and the layout they read.            *)
(*                                                                         *)
(* Lengths are fixed-point: one unit is a thousandth of a pixel, and every *)
(* product with a fractional factor (0.95, 0.08) is rounded to the nearest *)
(* unit, where the JavaScript double rounds to the nearest double.         *)
(***************************************************************************)
EXTENDS Integers, FiniteSets, Sequences, TLC

\* ------------------------------------------------------------------ bounds

\* Events from outside (scroll, resize, mode click, column click, unmount) one run may hold.
MaxEvents == 3

\* Viewport heights (window.innerHeight, in pixels) the window may take.
Heights == {8, 17}

\* Page scroll positions (pixels) the user may scroll to; window.scrollTo sets the others.
ScrollPositions == {60}

\* The largest viewport height (pixels) the layout is computed for.
MaxViewportHeight == 40

\* Offsets and targets of the easing runs: quarters of a pixel up to this many.
MaxEaseQuarters == 40

\* The rows of the largest file parsed, and the lengths of the longest author
\* and content in a file.
MaxRows == 320
MaxAuthor == 33
MaxContent == 405

\* ------------------------------------------------------- program constants

\* Units per pixel.
Unit == 10 * 100

SPACING == 16
AUTO_SCROLL_SPEED == 1035
NUM_SHAPES == 40

\* v * 0.95, the decay of the velocity in one frame (a percentage).
decayPct == 95
\* newVelocity < 0.1, in units.
minVelocity == 100
\* easingFactor = 0.08 (a percentage).
easingFactorPct == 8
\* diff < 0.5, in units.
snapDistance == 500
\* scrollSpeed = 0.5: offset = scrollY / scrollSpeedDiv, scrollY = offset * scrollSpeedDiv.
scrollSpeedDiv == 2

\* getColumnContent: the step between the first reviews of two columns, and
\* the longest author and content a card shows.
columnStride == 10
authorMaxLength == 30
contentMaxLength == 400

\* ---------------------------------------------------------------- helpers

\* n / d rounded to the nearest integer (d > 0).
Round(n, d) == (2 * n + d) \div (2 * d)

Abs(x) == IF x < 0 THEN 0 - x ELSE x
Min(a, b) == IF a < b THEN a ELSE b
Max(a, b) == IF a > b THEN a ELSE b

\* ----------------------------------------------------------------- layout

getVisibleRows(cols) ==
  CASE cols \in {1, 2} -> 1
    [] cols \in {3, 4} -> 2
    [] OTHER -> 1

\* itemHeight as the tile height alone, the gap forgotten.
itemHeight_NoSpacing(h, cols) ==
  LET visibleRows == getVisibleRows(cols)
      availableHeight == (h - SPACING * 2) * Unit
  IN  (availableHeight - SPACING * Unit * (visibleRows - 1)) \div visibleRows

\* shapeHeight + SPACING, in units, for a viewport of h pixels.
itemHeight(h, cols) ==
  LET visibleRows == getVisibleRows(cols)
      availableHeight == (h - SPACING * 2) * Unit
      shapeHeight == (availableHeight - SPACING * Unit * (visibleRows - 1)) \div visibleRows
  IN  shapeHeight + SPACING * Unit

maxOffsetOf(h, cols) == (NUM_SHAPES - getVisibleRows(cols)) * itemHeight(h, cols)

lerp(start, end, pct) == start + Round((end - start) * pct, 100)

\* ------------------------------------------------------------------ text

\* A string is the sequence of its characters, one UTF-16 code unit each.

\* The letters String.prototype.toLowerCase changes, of those the reviews and
\* the keywords are written in, each with its lower-case form.
lowerCaseOf ==
  [c \in {"A", "B", "C", "D", "E", "F", "G", "H", "I", "J", "K", "L", "M", "N", "O", "P",
          "Q", "R", "S", "T", "U", "V", "W", "X", "Y", "Z", "Á", "À", "Â", "Ã", "É", "Ê",
          "Í", "Ó", "Ô", "Õ", "Ú", "Ç"} |->
     CASE c = "A" -> "a" [] c = "B" -> "b" [] c = "C" -> "c" [] c = "D" -> "d"
       [] c = "E" -> "e" [] c = "F" -> "f" [] c = "G" -> "g" [] c = "H" -> "h"
       [] c = "I" -> "i" [] c = "J" -> "j" [] c = "K" -> "k" [] c = "L" -> "l"
       [] c = "M" -> "m" [] c = "N" -> "n" [] c = "O" -> "o" [] c = "P" -> "p"
       [] c = "Q" -> "q" [] c = "R" -> "r" [] c = "S" -> "s" [] c = "T" -> "t"
       [] c = "U" -> "u" [] c = "V" -> "v" [] c = "W" -> "w" [] c = "X" -> "x"
       [] c = "Y" -> "y" [] c = "Z" -> "z" [] c = "Á" -> "á" [] c = "À" -> "à"
       [] c = "Â" -> "â" [] c = "Ã" -> "ã" [] c = "É" -> "é" [] c = "Ê" -> "ê"
       [] c = "Í" -> "í" [] c = "Ó" -> "ó" [] c = "Ô" -> "ô" [] c = "Õ" -> "õ"
       [] c = "Ú" -> "ú" [] c = "Ç" -> "ç"]

\* String.prototype.toLowerCase
toLowerCase(s) ==
  [i \in 1..Len(s) |-> IF s[i] \in DOMAIN lowerCaseOf THEN lowerCaseOf[s[i]] ELSE s[i]]

\* String.prototype.toUpperCase, on the characters of a colour.
toUpperCase(s) ==
  [i \in 1..Len(s) |->
     CASE s[i] = "a" -> "A" [] s[i] = "b" -> "B" [] s[i] = "c" -> "C"
       [] s[i] = "d" -> "D" [] s[i] = "e" -> "E" [] s[i] = "f" -> "F"
       [] OTHER -> s[i]]

\* String.prototype.includes
includes(s, k) ==
  \E i \in 0..(Len(s) - Len(k)) : \A j \in 1..Len(k) : s[i + j] = k[j]

\* String.prototype.substring(0, n)
substring(s, n) == SubSeq(s, 1, Min(n, Len(s)))

WhiteSpace == {" ", "\t", "\n", "\r"}

\* String.prototype.trim
trim(s) ==
  IF \A i \in 1..Len(s) : s[i] \in WhiteSpace THEN <<>>
  ELSE SubSeq(s,
         CHOOSE i \in 1..Len(s) :
           s[i] \notin WhiteSpace /\ \A j \in 1..(i - 1) : s[j] \in WhiteSpace,
         CHOOSE i \in 1..Len(s) :
           s[i] \notin WhiteSpace /\ \A j \in (i + 1)..Len(s) : s[j] \in WhiteSpace)

\* truncateText(text, maxLength)
truncateText(text, maxLength) ==
  IF text = <<>> THEN <<>>
  ELSE IF Len(text) <= maxLength THEN text
  ELSE trim(substring(text, maxLength)) \o <<".", ".", ".">>

\* ---------------------------------------------------------------- colours

POSITIVE_COLORS == <<<<"#", "9", "9", "F", "2", "A", "E">>, <<"#", "F", "F", "F", "F", "F", "F">>>>

PROBLEM_COLOR == <<"#", "3", "4", "2", "D", "3", "7">>

LIGHT_BG_COLORS == <<<<"#", "F", "F", "F", "F", "F", "F">>, <<"#", "9", "9", "F", "2", "A", "E">>>>

\* parseInt(h, 16) of a string of two hexadecimal digits
parseHex(h) ==
  LET digit(c) == CASE c = "0" -> 0 [] c = "1" -> 1 [] c = "2" -> 2 [] c = "3" -> 3
                    [] c = "4" -> 4 [] c = "5" -> 5 [] c = "6" -> 6 [] c = "7" -> 7
                    [] c = "8" -> 8 [] c = "9" -> 9 [] c = "A" -> 10 [] c = "B" -> 11
                    [] c = "C" -> 12 [] c = "D" -> 13 [] c = "E" -> 14 [] c = "F" -> 15
  IN  16 * digit(h[1]) + digit(h[2])

\* isDark(color): the luminance (0.299 r + 0.587 g + 0.114 b) / 255 is below
\* 0.5, with both sides multiplied by 255000.
isDark(color) ==
  LET hex == toUpperCase(SelectSeq(color, LAMBDA c : c # "#"))
      r == parseHex(SubSeq(hex, 1, 2))
      g == parseHex(SubSeq(hex, 3, 4))
      b == parseHex(SubSeq(hex, 5, 6))
  IN  299 * r + 587 * g + 114 * b < 127500

\* shouldAuthorBeBlack(color)
shouldAuthorBeBlack(color) ==
  \E k \in 1..Len(LIGHT_BG_COLORS) : toUpperCase(LIGHT_BG_COLORS[k]) = toUpperCase(color)

\* --------------------------------------------------------------- the reviews

\* The keywords: problema, problemas, erro, erros, bug, bugs, não funciona, não está funcionando,
\* não consigo, travando, travou, trava, lento, lenta, atualização, atualizacao,
\* atualizar, update, péssimo, pessimo, ruim, horrível, horrivel, reclamação,
\* reclamacao, suporte, ajuda, não abre, não carrega, crashando, crash, demora,
\* demorado, instável, instavel, fechando sozinho, fecha sozinho, se fecha.
PROBLEM_KEYWORDS ==
  << <<"p", "r", "o", "b", "l", "e", "m", "a">>,
     <<"p", "r", "o", "b", "l", "e", "m", "a", "s">>,
     <<"e", "r", "r", "o">>,
     <<"e", "r", "r", "o", "s">>,
     <<"b", "u", "g">>,
     <<"b", "u", "g", "s">>,
     <<"n", "ã", "o", " ", "f", "u", "n", "c", "i", "o", "n", "a">>,
     <<"n", "ã", "o", " ", "e", "s", "t", "á", " ", "f", "u", "n", "c", "i",
          "o", "n", "a", "n", "d", "o">>,
     <<"n", "ã", "o", " ", "c", "o", "n", "s", "i", "g", "o">>,
     <<"t", "r", "a", "v", "a", "n", "d", "o">>,
     <<"t", "r", "a", "v", "o", "u">>,
     <<"t", "r", "a", "v", "a">>,
     <<"l", "e", "n", "t", "o">>,
     <<"l", "e", "n", "t", "a">>,
     <<"a", "t", "u", "a", "l", "i", "z", "a", "ç", "ã", "o">>,
     <<"a", "t", "u", "a", "l", "i", "z", "a", "c", "a", "o">>,
     <<"a", "t", "u", "a", "l", "i", "z", "a", "r">>,
     <<"u", "p", "d", "a", "t", "e">>,
     <<"p", "é", "s", "s", "i", "m", "o">>,
     <<"p", "e", "s", "s", "i", "m", "o">>,
     <<"r", "u", "i", "m">>,
     <<"h", "o", "r", "r", "í", "v", "e", "l">>,
     <<"h", "o", "r", "r", "i", "v", "e", "l">>,
     <<"r", "e", "c", "l", "a", "m", "a", "ç", "ã", "o">>,
     <<"r", "e", "c", "l", "a", "m", "a", "c", "a", "o">>,
     <<"s", "u", "p", "o", "r", "t", "e">>,
     <<"a", "j", "u", "d", "a">>,
     <<"n", "ã", "o", " ", "a", "b", "r", "e">>,
     <<"n", "ã", "o", " ", "c", "a", "r", "r", "e", "g", "a">>,
     <<"c", "r", "a", "s", "h", "a", "n", "d", "o">>,
     <<"c", "r", "a", "s", "h">>,
     <<"d", "e", "m", "o", "r", "a">>,
     <<"d", "e", "m", "o", "r", "a", "d", "o">>,
     <<"i", "n", "s", "t", "á", "v", "e", "l">>,
     <<"i", "n", "s", "t", "a", "v", "e", "l">>,
     <<"f", "e", "c", "h", "a", "n", "d", "o", " ", "s", "o", "z", "i", "n",
          "h", "o">>,
     <<"f", "e", "c", "h", "a", " ", "s", "o", "z", "i", "n", "h", "o">>,
     <<"s", "e", " ", "f", "e", "c", "h", "a">> >>

\* hasProblem(content)
hasProblem(content) ==
  IF content = <<>> THEN FALSE
  ELSE LET lowerContent == toLowerCase(content)
       IN  \E k \in 1..Len(PROBLEM_KEYWORDS) : includes(lowerContent, PROBLEM_KEYWORDS[k])

minContentLength == 10
maxPositive == 200
maxProblems == 100

\* The filter of complete with "at least" for "more than".
validRow_AllowsTenCharacters(row) ==
  /\ row.author # <<>>
  /\ row.content # <<>>
  /\ Len(row.content) >= minContentLength

\* The filter of complete: a row parsed without a field has it undefined, and
\* one parsed with an empty field has it empty; both are the empty string here.
validRow(row) ==
  /\ row.author # <<>>
  /\ row.content # <<>>
  /\ Len(row.content) > minContentLength

\* Array.prototype.slice(0, n)
slice(a, n) == SubSeq(a, 1, Min(n, Len(a)))

\* complete(results): the <<positiveReviews, problemReviews>> it sets from the
\* rows of results.data.
complete(data) ==
  LET validReviews == SelectSeq(data, validRow)
      positive == SelectSeq(validReviews, LAMBDA row : ~hasProblem(row.content))
      problems == SelectSeq(validReviews, LAMBDA row : hasProblem(row.content))
  IN  <<slice(positive, maxPositive), slice(problems, maxProblems)>>

\* ---------------------------------------------------- files to be parsed

\* Reviews that pass the filter and match no keyword.
GoodRows ==
  << [author |-> <<"A", "n", "a">>,
     content |-> <<"m", "u", "i", "t", "o", " ", "b", "o", "m", " ", "o">>],
     [author |-> <<"R", "u", "i", " ", "S", "i", "l", "v", "a">>,
     content |-> <<"G", "o", "s", "t", "e", "i", " ", "d", "e", "m", "a", "i", "s", " ",
                  "d", "o", " ", "a", "p", "l", "i", "c", "a", "t", "i", "v", "o">>],
     [author |-> <<"B", "i", "a">>,
     content |-> <<"a", "p", "p", " ", "e", "x", "c", "e", "l", "e", "n", "t", "e", ",",
                  " ", "r", "e", "c", "o", "m", "e", "n", "d", "o">>] >>

\* Reviews that pass the filter and match a keyword: in lower case, in upper
\* case, with an accent, and inside a longer word.
BadRows ==
  << [author |-> <<"C", "a", "i", "o">>,
     content |-> <<"o", " ", "a", "p", "p", " ", "t", "e", "m", " ", "u", "m", " ", "b",
                  "u", "g", " ", "c", "h", "a", "t", "o">>],
     [author |-> <<"D", "u", "d", "a">>,
     content |-> <<"E", "R", "R", "O", " ", "A", "O", " ", "E", "N", "T", "R", "A", "R",
                  " ", "N", "A", " ", "C", "O", "N", "T", "A">>],
     [author |-> <<"E", "v", "a">>,
     content |-> <<"N", "Ã", "O", " ", "A", "B", "R", "E", " ", "d", "e", "p", "o", "i",
                  "s", " ", "d", "e", " ", "i", "n", "s", "t", "a", "l", "a", "r">>],
     [author |-> <<"F", "a", "b", "i", "o">>,
     content |-> <<"m", "u", "i", "t", "o", " ", "d", "e", "m", "o", "r", "a", "d", "o",
                  " ", "p", "a", "r", "a", " ", "a", "b", "r", "i", "r">>] >>

\* Rows the filter discards: no author, no content, a content of 10
\* characters, and a content of 10 characters that holds a keyword.
DiscardedRows ==
  << [author |-> <<>>,
     content |-> <<"s", "e", "m", " ", "a", "u", "t", "o", "r", " ", "m", "a", "s", " ",
                  "c", "o", "m", " ", "t", "e", "x", "t", "o">>],
     [author |-> <<"G", "i", "l">>,
     content |-> <<>>],
     [author |-> <<"H", "u", "g", "o">>,
     content |-> <<"d", "e", "z", " ", "l", "e", "t", "r", "a", "s">>],
     [author |-> <<"I", "v", "o">>,
     content |-> <<"b", "u", "g", ":", " ", "f", "a", "l", "h", "a">>] >>

\* A text of n characters with a space in every eighth place.
LongText(n) == [i \in 1..n |-> IF i % 8 = 0 THEN " " ELSE "a"]

\* Reviews longer than a card shows: the author and the content are truncated.
LongRows ==
  << [author |-> LongText(MaxAuthor), content |-> LongText(MaxContent)] >>

\* A file of n reviews, every third one matching a keyword.
Bulk(n) == [i \in 1..n |-> IF i % 3 = 0 THEN BadRows[1] ELSE GoodRows[1]]

Datasets ==
  { <<>>,
    GoodRows,
    BadRows,
    DiscardedRows,
    SubSeq(GoodRows, 1, 1),
    DiscardedRows \o GoodRows \o LongRows \o BadRows,
    Bulk(MaxRows) }

VARIABLES
  currentOffset,    \* useState(0), units
  targetOffset,     \* useState(0), units
  velocity,         \* useState(0), units per frame
  mode,             \* useState('manual')
  isDecelerating,   \* useState(false)
  viewportHeight,   \* useState(window.innerHeight), pixels
  numColumns,       \* useState(2)
  scrollY,          \* window.scrollY, units
  scrollEvent,      \* a scroll event queued by window.scrollTo, not yet dispatched
  pending,          \* ids of the animation-frame callbacks requested and not yet run or cancelled
  animationRef,     \* animationRef.current (0 for null)
  mounted,          \* the component is mounted
  positiveReviews,  \* useState([])
  problemReviews,   \* useState([])
  isLoading,        \* useState(true)
  parsePending,     \* Papa.parse has called neither complete nor error yet
  parses,           \* calls of Papa.parse so far (a history variable)
  events,           \* events from outside so far
  frames,           \* animation frames of the stretch being measured (a history variable)
  lastOp            \* the operation that led to this state

vars == <<currentOffset, targetOffset, velocity, mode, isDecelerating, viewportHeight,
          numColumns, scrollY, scrollEvent, pending, animationRef, mounted,
          positiveReviews, problemReviews, isLoading, parsePending, parses,
          events, frames, lastOp>>

maxOffset == maxOffsetOf(viewportHeight, numColumns)

\* ------------------------------------------------------------- the columns

\* getColumnContent with every column starting at the first review.
getColumnContent_NoStride(columnIndex, isLastColumn) ==
  LET isProblemsColumn == isLastColumn /\ numColumns >= 2 /\ Len(problemReviews) > 0
      sourceReviews == IF isProblemsColumn THEN problemReviews ELSE positiveReviews
      offset == 0
  IN  IF Len(sourceReviews) = 0 THEN <<>>
      ELSE [k \in 1..NUM_SHAPES |->
              LET i == k - 1
                  reviewIndex == (i + offset) % Len(sourceReviews)
                  bgColor == IF isProblemsColumn THEN PROBLEM_COLOR
                             ELSE POSITIVE_COLORS[(i % Len(POSITIVE_COLORS)) + 1]
                  review == sourceReviews[reviewIndex + 1]
              IN  [ author |-> truncateText(review.author, authorMaxLength),
                    content |-> truncateText(review.content, contentMaxLength),
                    bgColor |-> bgColor,
                    isLight |-> ~isDark(bgColor),
                    authorBlack |-> shouldAuthorBeBlack(bgColor) ]]

\* getColumnContent without the test of the number of columns.
getColumnContent_AnyColumnCount(columnIndex, isLastColumn) ==
  LET isProblemsColumn == isLastColumn /\ Len(problemReviews) > 0
      sourceReviews == IF isProblemsColumn THEN problemReviews ELSE positiveReviews
      offset == columnIndex * columnStride
  IN  IF Len(sourceReviews) = 0 THEN <<>>
      ELSE [k \in 1..NUM_SHAPES |->
              LET i == k - 1
                  reviewIndex == (i + offset) % Len(sourceReviews)
                  bgColor == IF isProblemsColumn THEN PROBLEM_COLOR
                             ELSE POSITIVE_COLORS[(i % Len(POSITIVE_COLORS)) + 1]
                  review == sourceReviews[reviewIndex + 1]
              IN  [ author |-> truncateText(review.author, authorMaxLength),
                    content |-> truncateText(review.content, contentMaxLength),
                    bgColor |-> bgColor,
                    isLight |-> ~isDark(bgColor),
                    authorBlack |-> shouldAuthorBeBlack(bgColor) ]]

\* getColumnContent(columnIndex, isLastColumn): the cards of a column, card
\* i of the source at place i + 1 of the sequence.
getColumnContent(columnIndex, isLastColumn) ==
  LET isProblemsColumn == isLastColumn /\ numColumns >= 2 /\ Len(problemReviews) > 0
      sourceReviews == IF isProblemsColumn THEN problemReviews ELSE positiveReviews
      offset == columnIndex * columnStride
  IN  IF Len(sourceReviews) = 0 THEN <<>>
      ELSE [k \in 1..NUM_SHAPES |->
              LET i == k - 1
                  reviewIndex == (i + offset) % Len(sourceReviews)
                  bgColor == IF isProblemsColumn THEN PROBLEM_COLOR
                             ELSE POSITIVE_COLORS[(i % Len(POSITIVE_COLORS)) + 1]
                  review == sourceReviews[reviewIndex + 1]
              IN  [ author |-> truncateText(review.author, authorMaxLength),
                    content |-> truncateText(review.content, contentMaxLength),
                    bgColor |-> bgColor,
                    isLight |-> ~isDark(bgColor),
                    authorBlack |-> shouldAuthorBeBlack(bgColor) ]]

\* columns: the columns rendered, column `index` at place index + 1.
columns ==
  [k \in 1..numColumns |->
     LET index == k - 1
         isLastColumn == index = numColumns - 1
     IN  [ id |-> index,
           content |-> getColumnContent(index, isLastColumn),
           goesUp |-> index % 2 = 0,
           isProblems |-> isLastColumn /\ numColumns >= 2 /\ Len(problemReviews) > 0 ]]

\* What App renders: the placeholder while loading, the columns afterwards.
view == IF isLoading THEN "loading" ELSE "columns"

\* --------------------------------------------------------------- the load

\* The dependencies of the effect that loads the file: none.
loadDeps == <<>>

\* The load effect without its list of dependencies: it runs on every render.
loadEffect_EveryRender(prevDeps, nextDeps, n) == n + 1

\* The load effect on a render after the first: it calls Papa.parse again when
\* its dependencies have changed; n is the number of calls so far.
loadEffect(prevDeps, nextDeps, n) == IF prevDeps # nextDeps THEN n + 1 ELSE n

\* A render that leaves the reviews and the loading flag as they are.
DataKept ==
  /\ parses' = loadEffect(loadDeps, loadDeps, parses)
  /\ UNCHANGED <<positiveReviews, problemReviews, isLoading, parsePending>>

\* --------------------------------------------------- the browser's services

\* requestAnimationFrame returns an id no live handle holds: neither a pending
\* callback's nor the one animationRef still remembers.
NewFrameId(p, r) ==
  CHOOSE i \in 1..(Cardinality(p) + 2) :
    /\ i \notin p
    /\ i # r
    /\ \A j \in 1..(i - 1) : j \in p \/ j = r

requestAnimationFrame(p, r) == p \cup {NewFrameId(p, r)}

cancelAnimationFrame(p, id) == p \ {id}

\* window.scrollTo(0, y): the position cannot go below the top of the page.
scrollTo(y) == Max(y, 0)

\* ------------------------------------------------------- the animation loop

\* A cleanup that cancels nothing.
animationCleanup_NoCancel(p, r) == p

\* The cleanup of the animation effect.
animationCleanup(p, r) == IF r # 0 THEN cancelAnimationFrame(p, r) ELSE p

\* The dependency list of the animation effect.
animationDeps(m, t, mo, d, v) == <<m, t, mo, d, v>>

\* A render commits: the animation effect re-runs (cleanup, then a new request)
\* when one of its dependencies changed. The result is <<pending, animationRef>>.
animationEffect(oldDeps, newDeps, p, r) ==
  IF oldDeps = newDeps
  THEN <<p, r>>
  ELSE LET p1 == animationCleanup(p, r)
       IN  <<requestAnimationFrame(p1, r), NewFrameId(p1, r)>>

\* The auto step without its wrap.
autoStep_NoWrap(prev, mo) == prev + AUTO_SCROLL_SPEED

\* mode === 'auto': the new offset.
autoStep(prev, mo) ==
  LET newOffset == prev + AUTO_SCROLL_SPEED
  IN  IF newOffset >= mo THEN 0 ELSE newOffset

\* The deceleration step with the velocity carried over undecayed.
decelStep_NoDecay(prev, v, mo) ==
  LET stopped == v < minVelocity
      moved == prev + Round(v * decayPct, 100)
      clamped == moved >= mo
  IN  [ offset |-> IF clamped THEN mo ELSE moved,
        velocity |-> IF stopped THEN 0 ELSE v,
        isDecelerating |-> ~(stopped \/ clamped),
        scrolls |-> stopped,
        scrollTarget |-> prev * scrollSpeedDiv ]

\* The deceleration step that never scrolls the page.
decelStep_NoScroll(prev, v, mo) ==
  LET newVelocity == Round(v * decayPct, 100)
      stopped == newVelocity < minVelocity
      moved == prev + Round(v * decayPct, 100)
      clamped == moved >= mo
  IN  [ offset |-> IF clamped THEN mo ELSE moved,
        velocity |-> IF stopped THEN 0 ELSE newVelocity,
        isDecelerating |-> ~(stopped \/ clamped),
        scrolls |-> FALSE,
        scrollTarget |-> prev * scrollSpeedDiv ]

\* The deceleration step that moves the offset by the velocity before its decay.
decelStep_UndecayedMove(prev, v, mo) ==
  LET newVelocity == Round(v * decayPct, 100)
      stopped == newVelocity < minVelocity
      moved == prev + v
      clamped == moved >= mo
  IN  [ offset |-> IF clamped THEN mo ELSE moved,
        velocity |-> IF stopped THEN 0 ELSE newVelocity,
        isDecelerating |-> ~(stopped \/ clamped),
        scrolls |-> stopped,
        scrollTarget |-> prev * scrollSpeedDiv ]

\* The deceleration step that keeps the decayed velocity when it stops.
decelStep_KeepsVelocity(prev, v, mo) ==
  LET newVelocity == Round(v * decayPct, 100)
      stopped == newVelocity < minVelocity
      moved == prev + Round(v * decayPct, 100)
      clamped == moved >= mo
  IN  [ offset |-> IF clamped THEN mo ELSE moved,
        velocity |-> newVelocity,
        isDecelerating |-> ~(stopped \/ clamped),
        scrolls |-> stopped,
        scrollTarget |-> prev * scrollSpeedDiv ]

\* isDecelerating: the new offset, velocity and flag, and whether and where the
\* page is scrolled.
decelStep(prev, v, mo) ==
  LET newVelocity == Round(v * decayPct, 100)
      stopped == newVelocity < minVelocity
      moved == prev + Round(v * decayPct, 100)
      clamped == moved >= mo
  IN  [ offset |-> IF clamped THEN mo ELSE moved,
        velocity |-> IF stopped THEN 0 ELSE newVelocity,
        isDecelerating |-> ~(stopped \/ clamped),
        scrolls |-> stopped,
        scrollTarget |-> prev * scrollSpeedDiv ]

\* The easing step without the snap.
manualStep_NoSnap(prev, target) == lerp(prev, target, easingFactorPct)

\* Manual tracking: the new offset.
manualStep(prev, target) ==
  LET diff == Abs(target - prev)
  IN  IF diff < snapDistance THEN target ELSE lerp(prev, target, easingFactorPct)

\* The clamp with maxOffset as its upper limit whatever its sign.
clampedOffset_NoDegenerateGuard(y, mo) ==
  LET rawOffset == Round(y, scrollSpeedDiv)
  IN  Min(Max(rawOffset, 0), mo)

\* The target a scroll event at page position y (units) sets.
clampedOffset(y, mo) ==
  LET rawOffset == Round(y, scrollSpeedDiv)
  IN  Min(Max(rawOffset, 0), IF mo > 0 THEN mo ELSE 0)

\* ------------------------------------------------------------------ state

\* The reviews and the loading flag once complete has run on `data`.
Loaded(data) ==
  /\ positiveReviews = complete(data)[1]
  /\ problemReviews = complete(data)[2]
  /\ isLoading = FALSE
  /\ parsePending = FALSE
  /\ parses = 1

\* The component after its first render: the load effect has called Papa.parse.
Init ==
  /\ currentOffset = 0
  /\ targetOffset = 0
  /\ velocity = 0
  /\ mode = "manual"
  /\ isDecelerating = FALSE
  /\ viewportHeight \in Heights
  /\ numColumns = 2
  /\ scrollY = 0
  /\ scrollEvent = FALSE
  /\ pending = {1}
  /\ animationRef = 1
  /\ mounted = TRUE
  /\ positiveReviews = <<>>
  /\ problemReviews = <<>>
  /\ isLoading = TRUE
  /\ parsePending = TRUE
  /\ parses = 1
  /\ events = 0
  /\ frames = 0
  /\ lastOp = "mount"

\* The dependencies of the animation effect in the current state.
Deps == animationDeps(mode, targetOffset, maxOffset, isDecelerating, velocity)

\* The animation frame whose Auto branch leaves the target as it is.
Animate_StaleTarget ==
  /\ ~scrollEvent
  /\ \E id \in pending :
       LET p0 == pending \ {id}
           id2 == NewFrameId(p0, animationRef)
           p1 == requestAnimationFrame(p0, animationRef)
           d == decelStep(currentOffset, velocity, maxOffset)
           regime == IF mode = "auto" THEN "auto"
                     ELSE IF isDecelerating THEN "decel" ELSE "manual"
           newOffset == CASE regime = "auto" -> autoStep(currentOffset, maxOffset)
                          [] regime = "decel" -> d.offset
                          [] OTHER -> manualStep(currentOffset, targetOffset)
           newTarget == IF regime = "decel" THEN newOffset ELSE targetOffset
           newVelocity == CASE regime = "auto" -> AUTO_SCROLL_SPEED
                            [] regime = "decel" -> d.velocity
                            [] OTHER -> velocity
           newDecel == IF regime = "decel" THEN d.isDecelerating ELSE isDecelerating
           newScrollY == IF regime = "decel" /\ d.scrolls
                         THEN scrollTo(d.scrollTarget) ELSE scrollY
           eff == animationEffect(Deps,
                    animationDeps(mode, newTarget, maxOffset, newDecel, newVelocity),
                    p1, id2)
       IN  /\ currentOffset' = newOffset
           /\ targetOffset' = newTarget
           /\ velocity' = newVelocity
           /\ isDecelerating' = newDecel
           /\ scrollY' = newScrollY
           /\ scrollEvent' = (newScrollY # scrollY)
           /\ pending' = eff[1]
           /\ animationRef' = eff[2]
           /\ frames' = CASE regime = "decel" -> frames + 1
                           [] regime = "manual" /\ currentOffset # targetOffset ->
                                IF lastOp = "manual" THEN frames + 1 ELSE 1
                           [] OTHER -> 0
           /\ lastOp' = IF regime = "decel" /\ d.scrolls THEN "decelEnd" ELSE regime
  /\ UNCHANGED <<mode, viewportHeight, numColumns, mounted, events>>
  /\ DataKept

\* One animation frame: the callback registered under `id` runs, re-arms itself,
\* and the render its state updates cause commits. A callback still pending
\* would run whether or not the component is mounted. The browser dispatches a
\* queued scroll event before it runs the frame callbacks. In the Decelerating
\* branch the velocity of the closure and the velocity the updater receives are
\* the same value: the effect re-runs on every change of velocity.
Animate ==
  /\ ~scrollEvent
  /\ \E id \in pending :
       LET p0 == pending \ {id}
           id2 == NewFrameId(p0, animationRef)
           p1 == requestAnimationFrame(p0, animationRef)
           d == decelStep(currentOffset, velocity, maxOffset)
           regime == IF mode = "auto" THEN "auto"
                     ELSE IF isDecelerating THEN "decel" ELSE "manual"
           newOffset == CASE regime = "auto" -> autoStep(currentOffset, maxOffset)
                          [] regime = "decel" -> d.offset
                          [] OTHER -> manualStep(currentOffset, targetOffset)
           newTarget == IF regime = "manual" THEN targetOffset ELSE newOffset
           newVelocity == CASE regime = "auto" -> AUTO_SCROLL_SPEED
                            [] regime = "decel" -> d.velocity
                            [] OTHER -> velocity
           newDecel == IF regime = "decel" THEN d.isDecelerating ELSE isDecelerating
           newScrollY == IF regime = "decel" /\ d.scrolls
                         THEN scrollTo(d.scrollTarget) ELSE scrollY
           eff == animationEffect(Deps,
                    animationDeps(mode, newTarget, maxOffset, newDecel, newVelocity),
                    p1, id2)
       IN  /\ currentOffset' = newOffset
           /\ targetOffset' = newTarget
           /\ velocity' = newVelocity
           /\ isDecelerating' = newDecel
           /\ scrollY' = newScrollY
           /\ scrollEvent' = (newScrollY # scrollY)
           /\ pending' = eff[1]
           /\ animationRef' = eff[2]
           /\ frames' = CASE regime = "decel" -> frames + 1
                           [] regime = "manual" /\ currentOffset # targetOffset ->
                                IF lastOp = "manual" THEN frames + 1 ELSE 1
                           [] OTHER -> 0
           /\ lastOp' = IF regime = "decel" /\ d.scrolls THEN "decelEnd" ELSE regime
  /\ UNCHANGED <<mode, viewportHeight, numColumns, mounted, events>>
  /\ DataKept

\* handleScroll without the test of isDecelerating.
handleScroll_IgnoresDeceleration(y) ==
  IF mode = "manual" THEN clampedOffset(y, maxOffset) ELSE targetOffset

\* handleScroll with the page at position y (units): the new target.
handleScroll(y) ==
  IF mode = "manual" /\ ~isDecelerating
  THEN clampedOffset(y, maxOffset)
  ELSE targetOffset

\* The user scrolls the page to a position; the scroll listener runs. The page
\* has its scrollable height from the scroll area, which the loading view does
\* not render.
UserScroll ==
  /\ mounted
  /\ ~isLoading
  /\ events < MaxEvents
  /\ \E px \in ScrollPositions :
       LET y == px * Unit
           eff == animationEffect(Deps,
                    animationDeps(mode, handleScroll(y), maxOffset, isDecelerating, velocity),
                    pending, animationRef)
       IN  /\ scrollY' = y
           /\ targetOffset' = handleScroll(y)
           /\ pending' = eff[1]
           /\ animationRef' = eff[2]
  /\ scrollEvent' = FALSE
  /\ events' = events + 1
  /\ frames' = 0
  /\ lastOp' = "scroll"
  /\ UNCHANGED <<currentOffset, velocity, mode, isDecelerating, viewportHeight,
                 numColumns, mounted>>
  /\ DataKept

\* The scroll event that window.scrollTo queued is dispatched to the listener.
DispatchScroll ==
  /\ mounted
  /\ scrollEvent
  /\ LET eff == animationEffect(Deps,
                  animationDeps(mode, handleScroll(scrollY), maxOffset, isDecelerating, velocity),
                  pending, animationRef)
     IN  /\ targetOffset' = handleScroll(scrollY)
         /\ pending' = eff[1]
         /\ animationRef' = eff[2]
  /\ scrollEvent' = FALSE
  /\ frames' = 0
  /\ lastOp' = "scroll"
  /\ UNCHANGED <<currentOffset, velocity, mode, isDecelerating, viewportHeight,
                 numColumns, scrollY, mounted, events>>
  /\ DataKept

\* handleResize: the window takes another height, one of hs.
Resize(hs) ==
  /\ mounted
  /\ events < MaxEvents
  /\ \E h \in hs \ {viewportHeight} :
       LET eff == animationEffect(Deps,
                    animationDeps(mode, targetOffset, maxOffsetOf(h, numColumns),
                                  isDecelerating, velocity),
                    pending, animationRef)
       IN  /\ viewportHeight' = h
           /\ pending' = eff[1]
           /\ animationRef' = eff[2]
  /\ events' = events + 1
  /\ frames' = 0
  /\ lastOp' = "resize"
  /\ UNCHANGED <<currentOffset, targetOffset, velocity, mode, isDecelerating,
                 numColumns, scrollY, scrollEvent, mounted>>
  /\ DataKept

HandleResize == Resize(Heights)

\* handleModeChange starting a deceleration on every switch.
handleModeChange_AlwaysDecelerates(newMode) == <<newMode, AUTO_SCROLL_SPEED, TRUE>>

\* handleModeChange(newMode): the new <<mode, velocity, isDecelerating>>.
handleModeChange(newMode) ==
  IF newMode = "manual" /\ mode = "auto"
  THEN <<newMode, AUTO_SCROLL_SPEED, TRUE>>
  ELSE <<newMode, velocity, isDecelerating>>

\* A click on the mode switch.
ModeClick ==
  /\ mounted
  /\ ~isLoading
  /\ events < MaxEvents
  /\ LET n == handleModeChange(IF mode = "auto" THEN "manual" ELSE "auto")
         eff == animationEffect(Deps,
                  animationDeps(n[1], targetOffset, maxOffset, n[3], n[2]),
                  pending, animationRef)
     IN  /\ mode' = n[1]
         /\ velocity' = n[2]
         /\ isDecelerating' = n[3]
         /\ pending' = eff[1]
         /\ animationRef' = eff[2]
  /\ events' = events + 1
  /\ frames' = 0
  /\ lastOp' = "mode"
  /\ UNCHANGED <<currentOffset, targetOffset, viewportHeight, numColumns, scrollY,
                 scrollEvent, mounted>>
  /\ DataKept

\* handleColumnToggle without the floor of one column.
handleColumnToggle_NoFloor(index, cols) ==
  IF index + 1 = cols /\ cols = 1 THEN cols
  ELSE IF index < cols THEN index ELSE index + 1

\* handleColumnToggle(index): the new column count.
handleColumnToggle(index, cols) ==
  IF index + 1 = cols /\ cols = 1 THEN cols
  ELSE IF index < cols
       THEN LET newNum == Max(1, index) IN IF newNum = 0 THEN 1 ELSE newNum
       ELSE index + 1

\* The effect on numColumns with the target left as it is.
columnsEffect_KeepsTarget == <<0, targetOffset, scrollTo(0)>>

\* The effect on numColumns: the <<currentOffset, targetOffset, scrollY>> it sets.
columnsEffect == <<0, 0, scrollTo(0)>>

\* A click on a box of the column selector, and the effect of the change.
ColumnClick ==
  /\ mounted
  /\ ~isLoading
  /\ events < MaxEvents
  /\ \E index \in 0..3 :
       LET cols == handleColumnToggle(index, numColumns)
           changed == cols # numColumns
           r == IF changed THEN columnsEffect ELSE <<currentOffset, targetOffset, scrollY>>
           eff == animationEffect(Deps,
                    animationDeps(mode, r[2], maxOffsetOf(viewportHeight, cols),
                                  isDecelerating, velocity),
                    pending, animationRef)
       IN  /\ numColumns' = cols
           /\ currentOffset' = r[1]
           /\ targetOffset' = r[2]
           /\ scrollY' = r[3]
           /\ scrollEvent' = (scrollEvent \/ r[3] # scrollY)
           /\ pending' = eff[1]
           /\ animationRef' = eff[2]
  /\ events' = events + 1
  /\ frames' = 0
  /\ lastOp' = "columns"
  /\ UNCHANGED <<velocity, mode, isDecelerating, viewportHeight, mounted>>
  /\ DataKept

\* The component unmounts: the cleanup of the animation effect runs.
Unmount ==
  /\ mounted
  /\ events < MaxEvents
  /\ mounted' = FALSE
  /\ events' = events + 1
  /\ pending' = animationCleanup(pending, animationRef)
  /\ frames' = 0
  /\ lastOp' = "unmount"
  /\ UNCHANGED <<currentOffset, targetOffset, velocity, mode, isDecelerating,
                 viewportHeight, numColumns, scrollY, scrollEvent, animationRef>>
  /\ UNCHANGED <<positiveReviews, problemReviews, isLoading, parsePending, parses>>

\* complete: the file is parsed, its rows one of `files`. The component
\* renders again; an unmounted component ignores the calls of its setters.
LoadComplete(files) ==
  /\ parsePending
  /\ parsePending' = FALSE
  /\ \E data \in files :
       LET r == complete(data)
       IN  IF mounted
           THEN /\ positiveReviews' = r[1]
                /\ problemReviews' = r[2]
                /\ isLoading' = FALSE
                /\ parses' = loadEffect(loadDeps, loadDeps, parses)
           ELSE UNCHANGED <<positiveReviews, problemReviews, isLoading, parses>>
  /\ lastOp' = "complete"
  /\ UNCHANGED <<currentOffset, targetOffset, velocity, mode, isDecelerating,
                 viewportHeight, numColumns, scrollY, scrollEvent, pending,
                 animationRef, mounted, events, frames>>

\* error: the file could not be fetched or parsed.
LoadError ==
  /\ parsePending
  /\ parsePending' = FALSE
  /\ IF mounted
     THEN /\ isLoading' = FALSE
          /\ parses' = loadEffect(loadDeps, loadDeps, parses)
     ELSE UNCHANGED <<isLoading, parses>>
  /\ lastOp' = "error"
  /\ UNCHANGED <<currentOffset, targetOffset, velocity, mode, isDecelerating,
                 viewportHeight, numColumns, scrollY, scrollEvent, pending,
                 animationRef, mounted, positiveReviews, problemReviews, events, frames>>

\* The file parsed in the runs of the whole view: one without reviews.
HandleComplete == LoadComplete({<<>>})

Next ==
  \/ HandleComplete
  \/ LoadError
  \/ Animate
  \/ UserScroll
  \/ DispatchScroll
  \/ HandleResize
  \/ ModeClick
  \/ ColumnClick
  \/ Unmount

Spec == Init /\ [][Next]_vars

\* ---------------------------------------------------- the reviews on their own

\* The load of any of the files, and the columns chosen afterwards.
CompleteAny == LoadComplete(Datasets)

NextData ==
  \/ CompleteAny
  \/ LoadError
  \/ ColumnClick
  \/ Unmount

SpecData == Init /\ [][NextData]_vars

\* ------------------------------------------------- the layout on its own

\* The view mounted in a window of any height up to MaxViewportHeight.
InitLayout ==
  /\ currentOffset = 0
  /\ targetOffset = 0
  /\ velocity = 0
  /\ mode = "manual"
  /\ isDecelerating = FALSE
  /\ viewportHeight \in 0..MaxViewportHeight
  /\ numColumns = 2
  /\ scrollY = 0
  /\ scrollEvent = FALSE
  /\ pending = {1}
  /\ animationRef = 1
  /\ mounted = TRUE
  /\ Loaded(GoodRows \o BadRows)
  /\ events = 0
  /\ frames = 0
  /\ lastOp = "mount"

ResizeLayout == Resize(0..MaxViewportHeight)

NextLayout ==
  \/ ResizeLayout
  \/ ColumnClick

SpecLayout == InitLayout /\ [][NextLayout]_vars

\* ------------------------------------------------- the easing on its own

EaseGrid == {q * (Unit \div 4) : q \in 0..MaxEaseQuarters}

\* Manual tracking with the offset at any point of the grid when a scroll event
\* has set the target to any other.
InitEase ==
  /\ currentOffset \in EaseGrid
  /\ targetOffset \in EaseGrid
  /\ velocity = 0
  /\ mode = "manual"
  /\ isDecelerating = FALSE
  /\ viewportHeight = 17
  /\ numColumns = 2
  /\ scrollY = targetOffset * scrollSpeedDiv
  /\ scrollEvent = FALSE
  /\ pending = {1}
  /\ animationRef = 1
  /\ mounted = TRUE
  /\ Loaded(GoodRows \o BadRows)
  /\ events = 0
  /\ frames = 0
  /\ lastOp = "scroll"

NextEase == Animate

SpecEase == InitEase /\ [][NextEase]_vars

\* ----------------------------------------------------------------- claims

\* The regime the engine is in.
Regime ==
  IF mode = "auto" THEN "Auto"
  ELSE IF isDecelerating THEN "Decelerating" ELSE "ManualTracking"

\* C1: in every reachable state 0 <= currentOffset <= maxOffset, maxOffset being
\* the value computed from the current viewport height and column count.
C1_OffsetWithinRange == 0 <= currentOffset /\ currentOffset <= maxOffset

\* C2: handleModeChange('manual') called in mode 'auto' sets velocity to the
\* auto-scroll speed, isDecelerating to true and mode to 'manual'; and while the
\* engine decelerates no scroll event changes targetOffset or currentOffset.
C2_DecelerationEntered ==
  [][ /\ (lastOp' = "mode" /\ mode = "auto") =>
           (mode' = "manual" /\ velocity' = AUTO_SCROLL_SPEED /\ isDecelerating')
      /\ (lastOp' = "scroll" /\ Regime = "Decelerating") =>
           (targetOffset' = targetOffset /\ currentOffset' = currentOffset)
    ]_vars

\* A scroll event was processed while the engine decelerated.
C2_Witness ==
  /\ lastOp = "scroll"
  /\ Regime = "Decelerating"
  /\ velocity = AUTO_SCROLL_SPEED
  /\ scrollY > 0
  /\ targetOffset = currentOffset
  /\ currentOffset > 0

\* Frames after which a velocity has fallen below `floor`, when a frame leaves at
\* most (decayPct + 1) % of it: an upper bound that allows for the rounding.
RECURSIVE DecayFrames(_, _)
DecayFrames(x, floor) ==
  IF x < floor THEN 0 ELSE 1 + DecayFrames((x * (decayPct + 1)) \div 100, floor)

DecelFrameBound == DecayFrames(AUTO_SCROLL_SPEED, minVelocity)

\* C3: every Decelerating frame strictly decreases |velocity|, and the engine
\* leaves Decelerating for ManualTracking after at most DecelFrameBound frames.
C3_DecelerationTerminates ==
  /\ [](Regime = "Decelerating" => frames < DecelFrameBound)
  /\ [][ lastOp' \in {"decel", "decelEnd"} =>
           /\ Abs(velocity') < Abs(velocity)
           /\ (~isDecelerating' => Regime' = "ManualTracking")
       ]_vars

\* The velocity has decayed from the auto-scroll speed to below 0.1 and the
\* engine is in ManualTracking.
C3_Witness ==
  /\ lastOp = "decelEnd"
  /\ frames > 40
  /\ velocity = 0
  /\ Regime = "ManualTracking"

\* The manual-target formula: clamp(scrollY * 0.5, 0, maxOffset).
ManualTarget(y, mo) ==
  LET raw == y \div 2
  IN  IF raw < 0 THEN 0 ELSE IF raw > mo THEN mo ELSE raw

\* C4: the scroll position written when the velocity falls below 0.1, fed back
\* through the manual-target formula, gives the offset the engine has on
\* entering ManualTracking.
C4_RoundTrip ==
  (lastOp = "decelEnd" /\ Regime = "ManualTracking") =>
    ManualTarget(scrollY, maxOffset) = currentOffset

\* Frames after which a distance has fallen below the snap distance, when a
\* frame leaves at most 93 % of it: an upper bound that allows for the rounding.
RECURSIVE EaseFrames(_)
EaseFrames(d) ==
  IF d < snapDistance THEN 1
  ELSE 1 + EaseFrames((d * (100 - easingFactorPct + 1)) \div 100)

EaseFrameBound == EaseFrames(MaxEaseQuarters * (Unit \div 4))

\* C5: with a fixed target the easing frames reach the target exactly within
\* EaseFrameBound frames, and no frame carries the offset beyond the target.
C5_EasingConverges ==
  /\ [](frames <= EaseFrameBound)
  /\ [][ /\ (currentOffset <= targetOffset => currentOffset' <= targetOffset)
         /\ (currentOffset >= targetOffset => currentOffset' >= targetOffset)
         /\ (currentOffset = targetOffset => currentOffset' = targetOffset)
       ]_vars

\* The offset has eased over several frames and snapped onto the target.
C5_Witness ==
  /\ lastOp = "manual"
  /\ frames > 10
  /\ currentOffset = targetOffset

\* C6: every change of the column count zeroes currentOffset, targetOffset,
\* velocity and the page scroll position and switches deceleration off.
C6_ColumnChangeResetsAll ==
  [][ numColumns' # numColumns =>
        /\ currentOffset' = 0
        /\ targetOffset' = 0
        /\ velocity' = 0
        /\ ~isDecelerating'
        /\ scrollY' = 0
    ]_vars

\* C6 as amended: every change of the column count zeroes currentOffset,
\* targetOffset and the page scroll position, and leaves velocity and
\* isDecelerating as they were.
C6_ColumnChangeResetsOffsets ==
  [][ numColumns' # numColumns =>
        /\ currentOffset' = 0
        /\ targetOffset' = 0
        /\ scrollY' = 0
        /\ velocity' = velocity
        /\ isDecelerating' = isDecelerating
    ]_vars

\* The column count changed while the engine decelerated.
C6_Witness ==
  /\ lastOp = "columns"
  /\ numColumns # 2
  /\ Regime = "Decelerating"
  /\ velocity > 0
  /\ currentOffset = 0
  /\ events = 3

\* What C7 says of the offset an Auto frame sets.
AutoFrameOffset(prev, mo) ==
  IF prev + AUTO_SCROLL_SPEED >= mo THEN 0 ELSE prev + AUTO_SCROLL_SPEED

\* C7: an Auto frame sets the offset to prev + 1.035, or to 0 when that reaches
\* maxOffset, and the offset after it never exceeds maxOffset.
C7_AutoFrameBelowMax ==
  [][ lastOp' = "auto" =>
        /\ currentOffset' = AutoFrameOffset(currentOffset, maxOffset)
        /\ currentOffset' <= maxOffset
    ]_vars

\* C7 as amended: an Auto frame sets the offset to prev + 1.035, or to 0 when
\* that reaches maxOffset, and the offset after it never exceeds
\* max(maxOffset, 0).
C7_AutoFrameBelowMaxOrZero ==
  [][ lastOp' = "auto" =>
        /\ currentOffset' = AutoFrameOffset(currentOffset, maxOffset)
        /\ currentOffset' <= Max(maxOffset, 0)
    ]_vars

\* An Auto frame has wrapped the offset to 0 on reaching a positive maxOffset.
C7_Witness ==
  /\ lastOp = "auto"
  /\ maxOffset > 0
  /\ currentOffset = 0
  /\ velocity = AUTO_SCROLL_SPEED

\* C8: a scroll event in ManualTracking sets targetOffset to
\* clamp(scrollY * 0.5, 0, maxOffset), to 0 when maxOffset <= 0; the target is
\* never negative and never above max(maxOffset, 0).
C8_ScrollSetsClampedTarget ==
  [][ (lastOp' = "scroll" /\ Regime = "ManualTracking") =>
        /\ targetOffset' = (IF maxOffset <= 0 THEN 0 ELSE ManualTarget(scrollY', maxOffset))
        /\ targetOffset' >= 0
        /\ targetOffset' <= Max(maxOffset, 0)
    ]_vars

\* A scroll event below the top of a page whose maxOffset is negative has set
\* the target to 0.
C8_Witness ==
  /\ lastOp = "scroll"
  /\ Regime = "ManualTracking"
  /\ maxOffset < 0
  /\ scrollY > 0
  /\ targetOffset = 0

\* C9: for every viewport height >= 0 and every column count, maxOffset >= 0.
C9_MaxOffsetNonNegative == viewportHeight >= 0 => maxOffset >= 0

\* C9 as amended: maxOffset >= 0 exactly for the viewport heights >= SPACING.
C9_MaxOffsetSign == (maxOffset >= 0) <=> (viewportHeight >= SPACING)

\* The layout of four columns in a viewport as high as one gap: maxOffset is 0.
C9_Witness ==
  /\ viewportHeight = SPACING
  /\ numColumns = 4
  /\ maxOffset = 0

\* C10: at most one animation-frame callback is pending, the one animationRef
\* names, and none is pending once the component is unmounted.
C10_OneFramePending ==
  /\ Cardinality(pending) <= 1
  /\ (mounted => pending = {animationRef})
  /\ (~mounted => pending = {})

\* The component was unmounted after its effect had re-run, and no callback is
\* pending.
C10_Witness ==
  /\ ~mounted
  /\ pending = {}
  /\ animationRef > 1
  /\ events = 3

\* Whether the step taken is an animation frame.
FrameTaken == lastOp' \in {"auto", "decel", "decelEnd", "manual"}

\* C11: on the Decelerating frame in which v * 0.95 falls below 0.1 the engine
\* enters ManualTracking: velocity is 0, isDecelerating is false, and the page
\* scroll position is set, on that frame only, to offset / 0.5, the offset
\* being the one the frame starts from.
C11_DecelerationEnds ==
  [][ /\ (FrameTaken /\ Regime = "Decelerating"
            /\ Round(velocity * decayPct, 100) < minVelocity) =>
           /\ velocity' = 0
           /\ ~isDecelerating'
           /\ Regime' = "ManualTracking"
           /\ scrollY' = Max(currentOffset * 2, 0)
      /\ (FrameTaken /\ ~(Regime = "Decelerating"
                           /\ Round(velocity * decayPct, 100) < minVelocity)) =>
           scrollY' = scrollY
    ]_vars

\* The deceleration has ended at an offset above 0 and the page was scrolled.
C11_Witness ==
  /\ lastOp = "decelEnd"
  /\ velocity = 0
  /\ scrollY > 0
  /\ scrollEvent
  /\ Regime = "ManualTracking"

\* C12: after any sequence of clicks on the column selector numColumns is one
\* of 1, 2, 3, 4.
C12_ColumnCountInRange == numColumns \in {1, 2, 3, 4}

\* Clicks have taken the column count from 2 to 1.
C12_Witness ==
  /\ lastOp = "columns"
  /\ numColumns = 1
  /\ events >= 1

\* C17: a Decelerating frame sets velocity to v * 0.95, or to 0 when that is
\* below 0.1, and the offset to prev + v * 0.95, or to maxOffset with
\* isDecelerating false when that reaches maxOffset; targetOffset is set to the
\* new offset.
C17_DecelerationFrame ==
  [][ (FrameTaken /\ Regime = "Decelerating") =>
        LET decayed == Round(velocity * decayPct, 100)
            moved == currentOffset + decayed
        IN  /\ velocity' = (IF decayed < minVelocity THEN 0 ELSE decayed)
            /\ currentOffset' = (IF moved >= maxOffset THEN maxOffset ELSE moved)
            /\ (moved >= maxOffset => ~isDecelerating')
            /\ targetOffset' = currentOffset'
    ]_vars

\* A Decelerating frame has moved the offset without reaching maxOffset.
C17_Witness ==
  /\ lastOp = "decel"
  /\ isDecelerating
  /\ frames > 1
  /\ currentOffset > 0
  /\ currentOffset < maxOffset
  /\ targetOffset = currentOffset

\* C18: after every Auto frame targetOffset equals currentOffset and velocity
\* equals 1.035.
C18_AutoFrameKeepsTarget ==
  lastOp = "auto" => (targetOffset = currentOffset /\ velocity = AUTO_SCROLL_SPEED)

\* An Auto frame has moved the offset and the target with it.
C18_Witness ==
  /\ lastOp = "auto"
  /\ currentOffset > AUTO_SCROLL_SPEED
  /\ targetOffset = currentOffset
  /\ velocity = AUTO_SCROLL_SPEED

\* C19: in ManualTracking velocity is 0.
C19_ManualTrackingAtRest == Regime = "ManualTracking" => velocity = 0

\* C19 as amended: in ManualTracking velocity is 0 in the initial state and
\* after a deceleration that ended because velocity fell below 0.1; after one
\* that ended because the offset was clamped at maxOffset it is the decayed
\* velocity v * 0.95, at least 0.1.
C19_ManualTrackingVelocity ==
  /\ (Regime = "ManualTracking" =>
        velocity = 0 \/ (velocity >= minVelocity /\ velocity < AUTO_SCROLL_SPEED))
  /\ (lastOp \in {"mount", "decelEnd"} => (Regime = "ManualTracking" /\ velocity = 0))
  /\ ((lastOp = "decel" /\ ~isDecelerating) =>
        (Regime = "ManualTracking" /\ velocity >= minVelocity /\ currentOffset = maxOffset))

\* A deceleration has ended by the clamp at maxOffset with the velocity above 0.
C19_Witness ==
  /\ lastOp = "decel"
  /\ Regime = "ManualTracking"
  /\ velocity > 0
  /\ maxOffset > 0
  /\ currentOffset = maxOffset

\* C20: isDecelerating is true only while mode is 'manual'.
C20_DeceleratingOnlyInManual == isDecelerating => mode = "manual"

\* C20 as amended: isDecelerating becomes true only on a switch from auto to
\* manual; it stays true when the mode is switched to auto during a
\* deceleration, and a frame in mode 'auto' takes the Auto step whatever
\* isDecelerating is and leaves it as it is.
C20_RegimeByModeFirst ==
  [][ /\ (~isDecelerating /\ isDecelerating') => (mode = "auto" /\ mode' = "manual")
      /\ (lastOp' = "mode" /\ mode = "manual") =>
           (mode' = "auto" /\ isDecelerating' = isDecelerating)
      /\ (FrameTaken /\ mode = "auto") =>
           /\ currentOffset' = AutoFrameOffset(currentOffset, maxOffset)
           /\ isDecelerating' = isDecelerating
    ]_vars

\* A frame has run in mode 'auto' with isDecelerating still true.
C20_Witness ==
  /\ lastOp = "auto"
  /\ mode = "auto"
  /\ isDecelerating
  /\ currentOffset > 0

\* The pool getColumnContent(columnIndex, isLastColumn) is to read.
SourcePool(isLastColumn) ==
  IF isLastColumn /\ numColumns >= 2 /\ problemReviews # <<>>
  THEN problemReviews
  ELSE positiveReviews

\* C13: getColumnContent returns exactly 40 cards for a pool that is not
\* empty, whatever its size, card i built from the review at
\* (i + columnIndex * 10) mod pool.length, and no card for an empty pool.
C13_ColumnContent ==
  \A columnIndex \in 0..3 : \A isLastColumn \in BOOLEAN :
    LET pool == SourcePool(isLastColumn)
        content == getColumnContent(columnIndex, isLastColumn)
    IN  IF pool = <<>>
        THEN content = <<>>
        ELSE /\ Len(content) = 40
             /\ \A i \in 0..39 :
                  LET review == pool[((i + columnIndex * 10) % Len(pool)) + 1]
                  IN  /\ content[i + 1].author = truncateText(review.author, 30)
                      /\ content[i + 1].content = truncateText(review.content, 400)

\* The third of four columns shows 40 cards from a pool of 3 reviews, the
\* first card being the third review.
C13_Witness ==
  /\ ~isLoading
  /\ numColumns = 4
  /\ Len(positiveReviews) = 3
  /\ Len(getColumnContent(2, FALSE)) = 40
  /\ getColumnContent(2, FALSE)[1].author = positiveReviews[3].author
  /\ getColumnContent(2, FALSE)[1].author # positiveReviews[1].author

\* C14: a column shows the problem pool exactly when it is the last one, there
\* are at least 2 columns and the problem pool is not empty, and the positive
\* pool otherwise; every card of a problem column has the problem colour, and
\* card i of another column has colour i mod 2 of the palette of two.
C14_PoolAndColour ==
  \A k \in 1..numColumns :
    LET flagged == k = numColumns /\ numColumns >= 2 /\ problemReviews # <<>>
        pool == IF flagged THEN problemReviews ELSE positiveReviews
        cards == columns[k].content
    IN  /\ columns[k].isProblems = flagged
        /\ (cards = <<>>) = (pool = <<>>)
        /\ \A c \in 1..Len(cards) :
             /\ \E r \in 1..Len(pool) :
                  /\ cards[c].author = truncateText(pool[r].author, 30)
                  /\ cards[c].content = truncateText(pool[r].content, 400)
             /\ cards[c].bgColor = IF flagged THEN PROBLEM_COLOR
                                   ELSE IF (c - 1) % 2 = 0 THEN POSITIVE_COLORS[1]
                                   ELSE POSITIVE_COLORS[2]

\* Three columns with both pools filled: the last shows problems in the
\* problem colour, the first alternates the two colours.
C14_Witness ==
  /\ ~isLoading
  /\ numColumns = 3
  /\ positiveReviews # <<>>
  /\ problemReviews # <<>>
  /\ columns[3].isProblems
  /\ ~columns[1].isProblems
  /\ columns[3].content[1].bgColor = PROBLEM_COLOR
  /\ columns[3].content[1].author = problemReviews[1].author
  /\ columns[1].content[1].bgColor # columns[1].content[2].bgColor

\* C15: Papa.parse is called once per mount; the mounted view shows the
\* placeholder exactly until the parse has resolved; isLoading, once false,
\* stays false; after a failure both pools are empty.
C15_LoadLifecycle ==
  [][ /\ parses = 1
      /\ parses' = 1
      /\ mounted => (view = "loading" <=> parsePending)
      /\ mounted' => (view' = "loading" <=> parsePending')
      /\ ~isLoading => ~isLoading'
      /\ lastOp' = "error" => (positiveReviews' = <<>> /\ problemReviews' = <<>>)
    ]_vars

\* The load has failed: the view shows no placeholder and has no review.
C15_Witness ==
  /\ lastOp = "error"
  /\ mounted
  /\ ~parsePending
  /\ view = "columns"
  /\ positiveReviews = <<>>
  /\ problemReviews = <<>>
  /\ parses = 1

\* What holds of the pools once complete has set them.
PoolsFiltered ==
  /\ \A pool \in {positiveReviews, problemReviews} : \A k \in 1..Len(pool) :
       /\ pool[k].author # <<>>
       /\ Len(pool[k].content) > 10
  /\ \A k \in 1..Len(problemReviews) : hasProblem(problemReviews[k].content)
  /\ \A k \in 1..Len(positiveReviews) : ~hasProblem(positiveReviews[k].content)
  /\ \A j \in 1..Len(positiveReviews) : \A k \in 1..Len(problemReviews) :
       positiveReviews[j] # problemReviews[k]
  /\ Len(positiveReviews) <= 200
  /\ Len(problemReviews) <= 100

\* C16: after a successful load every review of either pool has an author and
\* a content of more than 10 characters; the pools are disjoint, every review
\* of the problem pool matches a keyword and none of the positive pool does;
\* the positive pool has at most 200 reviews and the problem pool at most 100;
\* no later step changes the pools.
C16_PoolsFilteredAndFixed ==
  [][ /\ (lastOp' = "complete" /\ mounted) => PoolsFiltered'
      /\ ~parsePending => UNCHANGED <<positiveReviews, problemReviews>>
    ]_vars

\* A file with more reviews than the pools keep has been loaded, and a column
\* clicked afterwards.
C16_Witness ==
  /\ lastOp = "columns"
  /\ Len(positiveReviews) = 200
  /\ Len(problemReviews) = 100
  /\ hasProblem(problemReviews[100].content)
  /\ ~hasProblem(positiveReviews[200].content)

\* ------------------------------------------------------------------ types

TypeOK ==
  /\ mode \in {"auto", "manual"}
  /\ isDecelerating \in BOOLEAN
  /\ numColumns \in 1..4
  /\ events \in 0..MaxEvents
  /\ isLoading \in BOOLEAN
  /\ parsePending \in BOOLEAN
  /\ parses \in Nat
  /\ \A pool \in {positiveReviews, problemReviews} :
       \A k \in 1..Len(pool) : DOMAIN pool[k] = {"author", "content"}

====
